---- MODULE Spec2Model ----
(***************************************************************************)
(* copy_translations.py: copy the translations of the theme-scoped         *)
(* resources of a source theme to a destination theme through a remote     *)
(* GraphQL API.                                                            *)
(*                                                                         *)
(* Strings the program inspects (resource identifiers, the --locales       *)
(* argument) are sequences of one-character strings. Opaque strings (keys, *)
(* values, digests) are TLA+ strings. Python's None is NULL. A dict whose  *)
(* iteration order matters is a sequence of entries with distinct keys, in *)
(* insertion order; a dict that is only looked up is a function.           *)
(***************************************************************************)
EXTENDS Integers, Sequences, FiniteSets, TLC

VARIABLES
    \* command line (argparse, lines 125-135) and environment (line 140)
    dry_run, arg_token, env_token, locales_arg, source_theme_id,
    dest_theme_id,
    \* the remote shop
    shop,
    \* main()
    pc, caller, locales, rt, resources, digest_map, ids, loc, trans_by_res,
    ri, dest_id, inputs,
    \* list_resources()
    out, cursor,
    \* fetch_locale_bulk() and register_bulk(): parameters and locals
    locale, dry, batches, fout, errs,
    \* the value the last helper returned
    retval,
    \* every request sent through graphql(), in order
    calls,
    \* arguments and result of a helper applied on its own
    hin, hout

vars == <<dry_run, arg_token, env_token, locales_arg, source_theme_id,
          dest_theme_id,
          shop,
          pc, caller, locales, rt, resources, digest_map, ids, loc,
          trans_by_res, ri, dest_id, inputs, out, cursor, batches, fout,
          errs, retval, locale, dry, calls, hin, hout>>

\* what no step of the program changes
static == <<dry_run, arg_token, env_token, locales_arg, source_theme_id,
            dest_theme_id, shop, caller, hin>>

NULL == "<None>"

MAX_IDS_PER_QUERY == 250
MAX_TRANSLATIONS_PER_MUT == 100
PAGE_SIZE == 100

\* the list with the section groups declared before the themes
RESOURCE_TYPES_groupsFirst ==
    << "ONLINE_STORE_THEME_SECTION_GROUP",
       "ONLINE_STORE_THEME",
       "ONLINE_STORE_THEME_JSON_TEMPLATE",
       "ONLINE_STORE_THEME_SETTINGS_DATA_SECTIONS",
       "ONLINE_STORE_THEME_LOCALE_CONTENT" >>

\* lines 29-35
RESOURCE_TYPES ==
    << "ONLINE_STORE_THEME",
       "ONLINE_STORE_THEME_SECTION_GROUP",
       "ONLINE_STORE_THEME_JSON_TEMPLATE",
       "ONLINE_STORE_THEME_SETTINGS_DATA_SECTIONS",
       "ONLINE_STORE_THEME_LOCALE_CONTENT" >>

----------------------------------------------------------------------------
(* Sequences and strings *)

Min(a, b) == IF a < b THEN a ELSE b

\* list(islice(itr, size)): the first size items, fewer when itr runs out
islice(s, size) == SubSeq(s, 1, Min(size, Len(s)))

\* what the iterator still holds after islice(itr, size)
Rest(s, size) == SubSeq(s, Min(size, Len(s)) + 1, Len(s))

\* chunked() stopping at the first batch that is not full
RECURSIVE chunked_fullOnly(_, _)
chunked_fullOnly(it, size) ==
    IF Len(islice(it, size)) < size THEN <<>>
    ELSE <<islice(it, size)>> \o chunked_fullOnly(Rest(it, size), size)

\* chunked(it, size): the batches the generator yields until one is empty
RECURSIVE chunked(_, _)
chunked(it, size) ==
    IF islice(it, size) = <<>> THEN <<>>
    ELSE <<islice(it, size)>> \o chunked(Rest(it, size), size)

RECURSIVE Flatten(_)
Flatten(ss) == IF ss = <<>> THEN <<>> ELSE Head(ss) \o Flatten(Tail(ss))

\* str(n) for n >= 0
RECURSIVE Str(_)
Str(n) ==
    LET d == <<"0", "1", "2", "3", "4", "5", "6", "7", "8", "9">>
    IN  IF n < 10 THEN <<d[n + 1]>> ELSE Str(n \div 10) \o <<d[(n % 10) + 1]>>

\* f"/{theme_id}"
Snippet(theme_id) == <<"/">> \o Str(theme_id)

\* s.find(sub): the first position (from 1) where sub occurs in s, 0 if none
Find(s, sub) ==
    LET hits == {i \in 1..(Len(s) - Len(sub) + 1) :
                     SubSeq(s, i, i + Len(sub) - 1) = sub}
    IN  IF hits = {} THEN 0 ELSE CHOOSE i \in hits : \A j \in hits : i <= j

\* sub in s
Contains(s, sub) == Find(s, sub) # 0

\* s.replace(old, new), the count left out: every occurrence is replaced
RECURSIVE ReplaceFirst_all(_, _, _)
ReplaceFirst_all(s, old, new) ==
    LET i == Find(s, old)
    IN  IF i = 0 THEN s
        ELSE SubSeq(s, 1, i - 1) \o new
             \o ReplaceFirst_all(SubSeq(s, i + Len(old), Len(s)), old, new)

\* s.replace(old, new, 1), old not empty
ReplaceFirst(s, old, new) ==
    LET i == Find(s, old)
    IN  IF i = 0 THEN s
        ELSE SubSeq(s, 1, i - 1) \o new \o SubSeq(s, i + Len(old), Len(s))

\* the two segments exchanged: the destination segment is looked for
Remap_swapped(src_id, source, dest) ==
    ReplaceFirst(src_id, Snippet(dest), Snippet(source))

\* src_id.replace(f"/{source}", f"/{dest}", 1)
Remap(src_id, source, dest) ==
    ReplaceFirst(src_id, Snippet(source), Snippet(dest))

----------------------------------------------------------------------------
(* Parsing of --locales (line 144) *)

\* s.split(","): never empty, one item more than there are commas
RECURSIVE Split(_)
Split(s) ==
    LET i == Find(s, <<",">>)
    IN  IF i = 0 THEN <<s>>
        ELSE <<SubSeq(s, 1, i - 1)>> \o Split(SubSeq(s, i + 1, Len(s)))

\* l.strip(), the whitespace being the space
RECURSIVE Strip(_)
Strip(l) ==
    IF l = <<>> THEN l
    ELSE IF Head(l) = " " THEN Strip(Tail(l))
    ELSE IF l[Len(l)] = " " THEN Strip(SubSeq(l, 1, Len(l) - 1))
    ELSE l

\* [l.strip() for l in args.locales.split(",")]
ParseLocales(arg) == LET parts == Split(arg)
                     IN  [i \in 1..Len(parts) |-> Strip(parts[i])]

----------------------------------------------------------------------------
(* The remote API. shop.pages[t] are the pages the shop serves for resource *)
(* type t, a cursor being the number of pages already served (0 is the null *)
(* cursor); shop.locales the shop's locales; shop.stale the digests the     *)
(* shop rejects with a user error; shop.missing the identifiers it returns  *)
(* no node for; shop.profile selects its translations.                      *)

Outcomes == {"ok", "http_error", "graphql_errors"}

\* translatableResources(first, after, resourceType)
ServerConn(pages, after) ==
    IF after < Len(pages)
    THEN [edges |-> pages[after + 1],
          pageInfo |-> [hasNextPage |-> after + 1 < Len(pages),
                        endCursor |-> after + 1]]
    ELSE [edges |-> <<>>,
          pageInfo |-> [hasNextPage |-> FALSE, endCursor |-> 0]]

Tr(k, v) == [key |-> k, value |-> v]

\* translations(locale) of one resource
ServerTranslations(id, l) ==
    LET last == id[Len(id)]
        fr == l = <<"f", "r">>
    IN  IF shop.profile = 1
        THEN IF last = "1"
             THEN IF fr THEN <<Tr("title", "Bonjour"), Tr("body", NULL)>>
                        ELSE <<Tr("title", ""), Tr("extra", "x")>>
             ELSE IF fr THEN <<Tr("title", "Salut"), Tr("body", "Corps"),
                               Tr("title", "Allo")>>
                        ELSE <<>>
        ELSE <<Tr("title", "T"), Tr("body", "B")>>

\* translatableResourcesByIds(resourceIds, first): one node per known id, in
\* the order asked (the list is halved so that long batches evaluate)
RECURSIVE ServerNodes(_, _)
ServerNodes(batch, l) ==
    IF batch = <<>> THEN <<>>
    ELSE IF Len(batch) = 1
    THEN IF batch[1] \in shop.missing THEN <<>>
         ELSE <<[resourceId |-> batch[1],
                 translations |-> ServerTranslations(batch[1], l)]>>
    ELSE ServerNodes(SubSeq(batch, 1, Len(batch) \div 2), l)
         \o ServerNodes(SubSeq(batch, Len(batch) \div 2 + 1, Len(batch)), l)

\* translationsRegister(resourceId, translations).userErrors: one error per
\* input whose digest is stale, field being the input's position from..to
RECURSIVE UserErrorsIn(_, _, _)
UserErrorsIn(trs, from, to) ==
    IF from > to THEN <<>>
    ELSE IF from = to
    THEN IF trs[from].translatableContentDigest \in shop.stale
         THEN <<[message |-> "invalid digest", field |-> from - 1]>>
         ELSE <<>>
    ELSE UserErrorsIn(trs, from, (from + to) \div 2)
         \o UserErrorsIn(trs, (from + to) \div 2 + 1, to)

UserErrors(trs) == UserErrorsIn(trs, 1, Len(trs))

\* an entry of calls: the request, how it ended, the data returned (<<>> when
\* it raised) and where main() stood (rt, loc) when it was sent
Call(op, variables, outcome, data) ==
    [op |-> op, variables |-> variables, outcome |-> outcome,
     data |-> IF outcome = "ok" THEN data ELSE <<>>,
     rt |-> rt, loc |-> loc]

\* graphql() without the check of the "errors" member
Raises_httpOnly(outcome) == outcome = "http_error"

\* graphql(): the request is sent, then an HTTP error status (line 55) or a
\* non-empty "errors" member (lines 57-58) raises
Raises(outcome) == outcome # "ok"

----------------------------------------------------------------------------
(* The program's own computations *)

\* os.getenv with a default that is not empty: a token is always resolved
ResolveToken_envDefault(flag, env) ==
    IF flag # "" THEN flag ELSE IF env # "" THEN env ELSE "shpat_default"

\* args.token or os.getenv("SHOPIFY_ADMIN_TOKEN"), "" standing for an unset
\* or empty value (line 140)
ResolveToken(flag, env) == IF flag # "" THEN flag ELSE env

\* the page kept whole, whatever theme its nodes belong to
Matching_keepsAll(edges, snippet) == edges

\* the nodes of a page whose resourceId contains snippet (lines 79-82)
RECURSIVE Matching(_, _)
Matching(edges, snippet) ==
    IF edges = <<>> THEN <<>>
    ELSE (IF Contains(Head(edges).resourceId, snippet) THEN <<Head(edges)>>
          ELSE <<>>)
         \o Matching(Tail(edges), snippet)

\* the loop leaving before it reads the nodes of the last page
ListStep_skipsLastPage(found, after, conn, snippet) ==
    [out |-> IF conn.pageInfo.hasNextPage
             THEN found \o Matching(conn.edges, snippet) ELSE found,
     cursor |-> IF conn.pageInfo.hasNextPage THEN conn.pageInfo.endCursor
                ELSE after,
     again |-> conn.pageInfo.hasNextPage]

\* the loop leaving after its first page, whatever hasNextPage says
ListStep_firstPageOnly(found, after, conn, snippet) ==
    [out |-> found \o Matching(conn.edges, snippet),
     cursor |-> after,
     again |-> FALSE]

\* one round of list_resources' loop on the page conn (lines 79-86)
ListStep(found, after, conn, snippet) ==
    [out |-> found \o Matching(conn.edges, snippet),
     cursor |-> IF conn.pageInfo.hasNextPage THEN conn.pageInfo.endCursor
                ELSE after,
     again |-> conn.pageInfo.hasNextPage]

\* {c["key"]: c["digest"] for c in content}: the last entry of a key wins
KeyDigests(content) ==
    [k \in {content[i].key : i \in DOMAIN content} |->
        LET at == {i \in DOMAIN content : content[i].key = k}
        IN  content[CHOOSE i \in at : \A j \in at : j <= i].digest]

\* the map holding an entry for the last node listed only
DigestMap_lastNodeOnly(nodes) ==
    [id \in {nodes[i].resourceId : i \in {Len(nodes)} \cap DOMAIN nodes} |->
        KeyDigests(nodes[Len(nodes)].translatableContent)]

\* digest_map (line 156): the last node of an identifier wins
DigestMap(nodes) ==
    [id \in {nodes[i].resourceId : i \in DOMAIN nodes} |->
        LET at == {i \in DOMAIN nodes : nodes[i].resourceId = id}
        IN  KeyDigests(nodes[CHOOSE i \in at : \A j \in at : j <= i]
                          .translatableContent)]

\* ids = list(digest_map.keys()) (line 157): each identifier once, in the
\* order of its first node
Ids(nodes) ==
    LET firsts[i \in 0..Len(nodes)] ==
            IF i = 0 THEN <<>>
            ELSE IF \E j \in 1..(i - 1) :
                        nodes[j].resourceId = nodes[i].resourceId
            THEN firsts[i - 1]
            ELSE Append(firsts[i - 1], nodes[i].resourceId)
    IN  firsts[Len(nodes)]

\* m.get(k)
Get(m, k) == IF k \in DOMAIN m THEN m[k] ELSE NULL

\* the truth value of a string or None
Truthy(x) == x # NULL /\ x # ""

\* the comprehension testing the value's truth instead of "is not None"
Copied_truthyValue(t, digests) ==
    Truthy(Get(digests, t.key)) /\ Truthy(t.value)

\* the comprehension without the test of the value
Copied_anyValue(t, digests) == Truthy(Get(digests, t.key))

\* the condition of the comprehension (line 174)
Copied(t, digests) == Truthy(Get(digests, t.key)) /\ t.value # NULL

\* inputs (lines 167-175)
RECURSIVE BuildInputs(_, _, _)
BuildInputs(translations, digests, l) ==
    IF translations = <<>> THEN <<>>
    ELSE LET t == Head(translations)
         IN  (IF Copied(t, digests)
              THEN <<[key |-> t.key, locale |-> l, value |-> t.value,
                      translatableContentDigest |-> Get(digests, t.key)]>>
              ELSE <<>>)
             \o BuildInputs(Tail(translations), digests, l)

\* d[k] = v on a dict kept in insertion order
DictSet(d, k, v) ==
    LET at == {i \in DOMAIN d : d[i].resourceId = k}
    IN  IF at = {} THEN Append(d, [resourceId |-> k, translations |-> v])
        ELSE [i \in DOMAIN d |-> IF i \in at THEN [d[i] EXCEPT !.translations = v]
                                 ELSE d[i]]

\* out[node["resourceId"]] = node["translations"] for each edge, in order
\* (lines 101-103; the list is halved so that long batches evaluate)
RECURSIVE FetchMerge(_, _)
FetchMerge(d, edges) ==
    IF edges = <<>> THEN d
    ELSE IF Len(edges) = 1
    THEN DictSet(d, edges[1].resourceId, edges[1].translations)
    ELSE LET half == FetchMerge(d, SubSeq(edges, 1, Len(edges) \div 2))
         IN  IF Len(half) >= 0   \* always: the first half is merged first
             THEN FetchMerge(half,
                             SubSeq(edges, Len(edges) \div 2 + 1, Len(edges)))
             ELSE half

\* one read request per identifier
ReadBatches_perResource(idList) == chunked(idList, 1)

\* the read batches cut at one identifier more than the limit
ReadBatches_offByOne(idList) == chunked(idList, MAX_IDS_PER_QUERY + 1)

\* chunked(ids, MAX_IDS_PER_QUERY) (line 99)
ReadBatches(idList) == chunked(idList, MAX_IDS_PER_QUERY)

\* chunked(inputs, MAX_TRANSLATIONS_PER_MUT) (line 115)
WriteBatches(trs) == chunked(trs, MAX_TRANSLATIONS_PER_MUT)

\* errs = res["userErrors"]: the errors of the earlier batches are lost
Collect_keepsLast(errors, userErrors) == userErrors

\* errs.extend(res["userErrors"]) (line 117)
Collect(errors, userErrors) == errors \o userErrors

\* a batch answered with user errors stays first in line and is sent again
Remaining_resendsRejected(bs, userErrors) ==
    IF userErrors # <<>> THEN bs ELSE Tail(bs)

\* the batches still to send once one is answered: the loop of lines 115-117
\* goes on to the next batch whatever res["userErrors"] holds
Remaining(bs, userErrors) == Tail(bs)

\* the early return testing only the input list
RegisterNoop_emptyOnly(isDry, trs) == trs = <<>>

\* register_bulk's early return (line 108)
RegisterNoop(isDry, trs) == isDry \/ trs = <<>>

\* main calling register_bulk whatever --dry-run says, and passing dry=False
RegisterCall_alwaysLive(isDry) == [made |-> TRUE, dry |-> FALSE]

\* main's call of register_bulk (lines 181-182): whether it is made, and the
\* dry argument it passes
RegisterCall(isDry) == [made |-> ~isDry, dry |-> isDry]

\* where a helper returns to
ReturnTo(label) == IF caller = "main" THEN label ELSE "returned"

----------------------------------------------------------------------------
(* list_resources(shop, token, rtype, theme_id), lines 70-87; rtype is      *)
(* RESOURCE_TYPES[rt] and theme_id is source_theme_id                       *)

\* line 71
ListEnter ==
    /\ pc = "list_enter"
    /\ out' = <<>>
    /\ cursor' = 0
    /\ pc' = "list"
    /\ UNCHANGED <<static, hout, locales, rt, resources, digest_map, ids, loc,
                   trans_by_res, ri, dest_id, inputs, batches, fout, errs,
                   retval, locale, dry, calls>>

\* one round of the loop: the request (line 78), the page's nodes (79-82),
\* then the cursor or the return (83-87)
ListPage ==
    /\ pc = "list"
    /\ \E outcome \in Outcomes :
         LET variables == [f |-> PAGE_SIZE, a |-> cursor,
                           t |-> RESOURCE_TYPES[rt]]
             conn == ServerConn(shop.pages[rt], cursor)
             step == ListStep(out, cursor, conn, Snippet(source_theme_id))
         IN  /\ calls' = Append(calls,
                            Call("translatableResources", variables, outcome,
                                 conn.edges))
             /\ IF Raises(outcome)
                THEN /\ pc' = "failed"
                     /\ UNCHANGED <<out, cursor, retval>>
                ELSE /\ out' = step.out
                     /\ cursor' = step.cursor
                     /\ IF step.again
                        THEN pc' = "list" /\ UNCHANGED retval
                        ELSE pc' = ReturnTo("after_list") /\ retval' = step.out
    /\ UNCHANGED <<static, hout, locales, rt, resources, digest_map, ids, loc,
                   trans_by_res, ri, dest_id, inputs, batches, fout, errs,
                   locale, dry>>

----------------------------------------------------------------------------
(* fetch_locale_bulk(shop, token, ids, locale), lines 93-104 *)

\* lines 94 and 99: the result is empty, the batches are those of ids
FetchEnter ==
    /\ pc = "fetch_enter"
    /\ fout' = <<>>
    /\ batches' = ReadBatches(ids)
    /\ pc' = "fetch"
    /\ UNCHANGED <<static, hout, locales, rt, resources, digest_map, ids, loc,
                   trans_by_res, ri, dest_id, inputs, out, cursor, errs,
                   retval, locale, dry, calls>>

\* one batch: the request (line 100), then its nodes (101-103)
FetchBatch ==
    /\ pc = "fetch"
    /\ batches # <<>>
    /\ \E outcome \in Outcomes :
         LET batch == Head(batches)
             variables == [ids |-> batch, loc |-> locale, first |-> Len(batch)]
             edges == ServerNodes(batch, locale)
         IN  /\ calls' = Append(calls,
                            Call("translatableResourcesByIds", variables,
                                 outcome, edges))
             /\ IF Raises(outcome)
                THEN pc' = "failed" /\ UNCHANGED <<fout, batches>>
                ELSE /\ fout' = FetchMerge(fout, edges)
                     /\ batches' = Tail(batches)
                     /\ pc' = "fetch"
    /\ UNCHANGED <<static, hout, locales, rt, resources, digest_map, ids, loc,
                   trans_by_res, ri, dest_id, inputs, out, cursor, errs,
                   retval, locale, dry>>

\* line 104
FetchReturn ==
    /\ pc = "fetch"
    /\ batches = <<>>
    /\ retval' = fout
    /\ pc' = ReturnTo("after_fetch")
    /\ UNCHANGED <<static, hout, locales, rt, resources, digest_map, ids, loc,
                   trans_by_res, ri, dest_id, inputs, out, cursor, batches,
                   fout, errs, locale, dry, calls>>

----------------------------------------------------------------------------
(* register_bulk(shop, token, rid, inputs, dry), lines 107-118; rid is      *)
(* dest_id                                                                  *)

\* lines 108-109, else 114-115
RegisterEnter ==
    /\ pc = "register_enter"
    /\ IF RegisterNoop(dry, inputs)
       THEN /\ retval' = <<>>
            /\ pc' = ReturnTo("next_resource")
            /\ UNCHANGED <<errs, batches>>
       ELSE /\ errs' = <<>>
            /\ batches' = WriteBatches(inputs)
            /\ pc' = "register"
            /\ UNCHANGED retval
    /\ UNCHANGED <<static, hout, locales, rt, resources, digest_map, ids, loc,
                   trans_by_res, ri, dest_id, inputs, out, cursor, fout,
                   locale, dry, calls>>

\* one batch: the mutation (line 116), then its user errors (line 117)
RegisterBatch ==
    /\ pc = "register"
    /\ batches # <<>>
    /\ \E outcome \in Outcomes :
         LET batch == Head(batches)
             variables == [id |-> dest_id, trs |-> batch]
             userErrors == UserErrors(batch)
         IN  /\ calls' = Append(calls,
                            Call("translationsRegister", variables, outcome,
                                 userErrors))
             /\ IF Raises(outcome)
                THEN pc' = "failed" /\ UNCHANGED <<errs, batches>>
                ELSE /\ errs' = Collect(errs, userErrors)
                     /\ batches' = Remaining(batches, userErrors)
                     /\ pc' = "register"
    /\ UNCHANGED <<static, hout, locales, rt, resources, digest_map, ids, loc,
                   trans_by_res, ri, dest_id, inputs, out, cursor, fout,
                   retval, locale, dry>>

\* line 118
RegisterReturn ==
    /\ pc = "register"
    /\ batches = <<>>
    /\ retval' = errs
    /\ pc' = ReturnTo("next_resource")
    /\ UNCHANGED <<static, hout, locales, rt, resources, digest_map, ids, loc,
                   trans_by_res, ri, dest_id, inputs, out, cursor, batches,
                   fout, errs, locale, dry, calls>>

----------------------------------------------------------------------------
(* main(), lines 124-198. Console output and timing are left out.          *)

\* lines 140-144: the token, then the locales given on the command line
MainStart ==
    /\ pc = "start"
    /\ IF ResolveToken(arg_token, env_token) = ""
       THEN pc' = "exit" /\ UNCHANGED locales
       ELSE IF locales_arg # <<>>
       THEN pc' = "next_type" /\ locales' = ParseLocales(locales_arg)
       ELSE pc' = "shop_locales" /\ UNCHANGED locales
    /\ UNCHANGED <<static, hout, rt, resources, digest_map, ids, loc,
                   trans_by_res,
                   ri, dest_id, inputs, out, cursor, batches, fout, errs,
                   retval, locale, dry, calls>>

\* shop_locales() (lines 65-67), called at line 144
ShopLocales ==
    /\ pc = "shop_locales"
    /\ \E outcome \in Outcomes :
         /\ calls' = Append(calls, Call("shopLocales", <<>>, outcome, shop.locales))
         /\ IF Raises(outcome)
            THEN pc' = "failed" /\ UNCHANGED locales
            ELSE pc' = "next_type" /\ locales' = shop.locales
    /\ UNCHANGED <<static, hout, rt, resources, digest_map, ids, loc,
                   trans_by_res,
                   ri, dest_id, inputs, out, cursor, batches, fout, errs,
                   retval, locale, dry>>

\* for rt in RESOURCE_TYPES (line 149), the call of line 151, the end (198)
NextType ==
    /\ pc = "next_type"
    /\ IF rt >= Len(RESOURCE_TYPES)
       THEN pc' = "done" /\ UNCHANGED rt
       ELSE pc' = "list_enter" /\ rt' = rt + 1
    /\ UNCHANGED <<static, hout, locales, resources, digest_map, ids, loc,
                   trans_by_res, ri, dest_id, inputs, out, cursor, batches,
                   fout, errs, retval, locale, dry, calls>>

\* a type without resources ending the loop over the types (break for
\* continue)
AfterList_emptyEndsRun ==
    /\ pc = "after_list"
    /\ resources' = retval
    /\ IF retval = <<>>
       THEN pc' = "done" /\ UNCHANGED <<digest_map, ids, loc>>
       ELSE /\ digest_map' = DigestMap(retval)
            /\ ids' = Ids(retval)
            /\ loc' = 0
            /\ pc' = "next_locale"
    /\ UNCHANGED <<static, hout, locales, rt, trans_by_res, ri, dest_id, inputs,
                   out, cursor, batches, fout, errs, retval, locale, dry,
                   calls>>

\* lines 151-157
AfterList ==
    /\ pc = "after_list"
    /\ resources' = retval
    /\ IF retval = <<>>
       THEN pc' = "next_type" /\ UNCHANGED <<digest_map, ids, loc>>
       ELSE /\ digest_map' = DigestMap(retval)
            /\ ids' = Ids(retval)
            /\ loc' = 0
            /\ pc' = "next_locale"
    /\ UNCHANGED <<static, hout, locales, rt, trans_by_res, ri, dest_id, inputs,
                   out, cursor, batches, fout, errs, retval, locale, dry,
                   calls>>

\* for loc in locales (line 159), the call of line 163
NextLocale ==
    /\ pc = "next_locale"
    /\ IF loc >= Len(locales)
       THEN pc' = "next_type" /\ UNCHANGED <<loc, locale>>
       ELSE pc' = "fetch_enter" /\ loc' = loc + 1 /\ locale' = locales[loc + 1]
    /\ UNCHANGED <<static, hout, locales, rt, resources, digest_map, ids,
                   trans_by_res, ri, dest_id, inputs, out, cursor, batches,
                   fout, errs, retval, dry, calls>>

\* lines 163-165
AfterFetch ==
    /\ pc = "after_fetch"
    /\ trans_by_res' = retval
    /\ ri' = 0
    /\ pc' = "next_resource"
    /\ UNCHANGED <<static, hout, locales, rt, resources, digest_map, ids, loc,
                   dest_id, inputs, out, cursor, batches, fout, errs, retval,
                   locale, dry, calls>>

\* for src_id, translations in trans_by_res.items() (line 165): the
\* destination (166), the inputs (167-175), the call of register_bulk
\* (181-182). digest_map[src_id] raises KeyError when src_id is no key: the
\* run ends at "key_error".
NextResource ==
    /\ pc = "next_resource"
    /\ IF ri >= Len(trans_by_res)
       THEN pc' = "next_locale" /\ UNCHANGED <<ri, dest_id, inputs, dry>>
       ELSE LET src_id == trans_by_res[ri + 1].resourceId
                translations == trans_by_res[ri + 1].translations
            IN  /\ ri' = ri + 1
                /\ dest_id' = Remap(src_id, source_theme_id, dest_theme_id)
                /\ IF translations # <<>> /\ src_id \notin DOMAIN digest_map
                   THEN pc' = "key_error" /\ UNCHANGED <<inputs, dry>>
                   ELSE /\ inputs' = IF translations = <<>> THEN <<>>
                                     ELSE BuildInputs(translations,
                                              digest_map[src_id], locales[loc])
                        /\ IF RegisterCall(dry_run).made
                           THEN /\ pc' = "register_enter"
                                /\ dry' = RegisterCall(dry_run).dry
                           ELSE pc' = "next_resource" /\ UNCHANGED dry
    /\ UNCHANGED <<static, hout, locales, rt, resources, digest_map, ids, loc,
                   trans_by_res, out, cursor, batches, fout, errs, retval,
                   locale, calls>>

----------------------------------------------------------------------------
(* The runs of main(): every command line and shop of the catalogue below  *)

Node(id, content) == [resourceId |-> id, translatableContent |-> content]
Content(k, d) == [key |-> k, digest |-> d]

idA == <<"g", "/", "1">>
idB == <<"g", "/", "2">>
idC == <<"g", "/", "1", "2">>
idD == <<"g", "/", "1", "/", "1">>

nodeA == Node(idA, <<Content("title", "d1"), Content("body", "d2")>>)
nodeB == Node(idB, <<Content("title", "d1")>>)
nodeC == Node(idC, <<Content("title", NULL), Content("body", "d1")>>)
nodeD == Node(idD, <<Content("title", "d1"), Content("title", "d2")>>)
\* the resource of nodeA listed a second time, its content changed meanwhile
nodeA2 == Node(idA, <<Content("title", "d2")>>)

NoPage == <<>>
OnePage == << <<nodeA, nodeB>> >>
TwoPages == << <<nodeC>>, <<nodeD, nodeA>> >>
ThreePages == << <<nodeB, nodeA>>, <<>>, <<nodeC>> >>
Repeated == << <<nodeA, nodeD>>, <<nodeA2>> >>

fr == <<"f", "r">>
de == <<"d", "e">>

Shops ==
    { [pages |-> <<OnePage, TwoPages, NoPage, OnePage, ThreePages>>,
       locales |-> <<fr, de>>, stale |-> {}, missing |-> {}, profile |-> 1],
      [pages |-> <<NoPage, TwoPages, OnePage, NoPage, NoPage>>,
       locales |-> <<de>>, stale |-> {"d2"}, missing |-> {idA}, profile |-> 2],
      [pages |-> <<ThreePages, Repeated, NoPage, NoPage, OnePage>>,
       locales |-> <<fr>>, stale |-> {"d1", "d2"}, missing |-> {},
       profile |-> 1] }

\* <<source theme id, destination theme id>>
ThemePairs == { <<1, 2>>, <<2, 1>>, <<12, 3>>, <<1, 1>> }

\* --locales: not given, "fr", "de, fr", "fr,fr"
LocaleArgs == { <<>>, fr, de \o <<",", " ">> \o fr, fr \o <<",">> \o fr }

\* <<--token, SHOPIFY_ADMIN_TOKEN>>
Tokens == { <<"", "">>, <<"shpat_flag", "">>, <<"", "shpat_env">> }

\* the locals before main() assigns them
Unset ==
    /\ locales = <<>> /\ rt = 0 /\ resources = <<>> /\ digest_map = <<>>
    /\ ids = <<>> /\ loc = 0 /\ trans_by_res = <<>> /\ ri = 0
    /\ dest_id = <<>> /\ inputs = <<>> /\ out = <<>> /\ cursor = 0
    /\ batches = <<>> /\ fout = <<>> /\ errs = <<>> /\ retval = <<>>
    /\ locale = <<>> /\ dry = FALSE /\ calls = <<>> /\ hout = <<>>

Init ==
    /\ dry_run \in BOOLEAN
    /\ \E tk \in Tokens : arg_token = tk[1] /\ env_token = tk[2]
    /\ locales_arg \in LocaleArgs
    /\ \E th \in ThemePairs : source_theme_id = th[1] /\ dest_theme_id = th[2]
    /\ shop \in Shops
    /\ pc = "start"
    /\ caller = "main"
    /\ hin = <<>>
    /\ Unset

Next ==
    \/ MainStart
    \/ ShopLocales
    \/ NextType
    \/ ListEnter
    \/ ListPage
    \/ AfterList
    \/ NextLocale
    \/ FetchEnter
    \/ FetchBatch
    \/ FetchReturn
    \/ AfterFetch
    \/ NextResource
    \/ RegisterEnter
    \/ RegisterBatch
    \/ RegisterReturn

Spec == Init /\ [][Next]_vars

\* main() runs in one thread that nothing suspends: a step that can be taken
\* is taken
FairSpec == Spec /\ WF_vars(Next)

----------------------------------------------------------------------------
(* Properties of a run of main() *)

ReadOps == {"shopLocales", "translatableResources",
            "translatableResourcesByIds"}

IsWrite(c) == c.op = "translationsRegister"

Last(seq) == seq[Len(seq)]

\* the nodes the discovery requests of resource type t returned, in order
RECURSIVE ListedNodes(_, _)
ListedNodes(t, i) ==
    IF i > Len(calls) THEN <<>>
    ELSE (IF calls[i].op = "translatableResources" /\ calls[i].rt = t
          THEN calls[i].data ELSE <<>>)
         \o ListedNodes(t, i + 1)

\* the digest the discovery of type t recorded for key k of resource r: that
\* of the last entry for k of the last node listed for r, NULL without one
RecordedDigest(t, r, k) ==
    LET nodes == ListedNodes(t, 1)
        at == {i \in DOMAIN nodes : nodes[i].resourceId = r}
    IN  IF at = {} THEN NULL
        ELSE LET content ==
                     nodes[CHOOSE i \in at : \A j \in at : j <= i]
                         .translatableContent
                 ks == {j \in DOMAIN content : content[j].key = k}
             IN  IF ks = {} THEN NULL
                 ELSE content[CHOOSE j \in ks : \A m \in ks : m <= j].digest

\* C1: in a run configured as dry-run no translationsRegister mutation is ever
\* sent; the only requests are locale discovery, resource discovery and bulk
\* fetch.
C1_DryRunNeverWrites ==
    dry_run => \A i \in DOMAIN calls : calls[i].op \in ReadOps

\* a dry run has built a non-empty input list for a resource and gone on
C1_Witness ==
    dry_run /\ pc = "next_resource" /\ ri >= 1 /\ inputs # <<>>

\* C2: when a run that is not a dry run is Done, every translation (k, v)
\* a bulk fetch returned for a resource r in a locale l, with a digest
\* recorded for (r, k) and v not null, was written to the remapped identifier
\* of r with exactly key k, locale l, value v and that digest.
C2_EligibleTranslationsWritten ==
    (pc = "done" /\ ~dry_run) =>
        \A i \in DOMAIN calls :
            calls[i].op = "translatableResourcesByIds" =>
                \A n \in DOMAIN calls[i].data :
                    LET node == calls[i].data[n]
                    IN  \A j \in DOMAIN node.translations :
                            LET t == node.translations[j]
                                d == RecordedDigest(calls[i].rt,
                                                    node.resourceId, t.key)
                            IN  (d # NULL /\ t.value # NULL) =>
                                \E w \in DOMAIN calls :
                                    /\ IsWrite(calls[w])
                                    /\ calls[w].variables.id =
                                           Remap(node.resourceId,
                                                 source_theme_id, dest_theme_id)
                                    /\ \E x \in DOMAIN calls[w].variables.trs :
                                           calls[w].variables.trs[x] =
                                               [key |-> t.key,
                                                locale |-> calls[i].variables.loc,
                                                value |-> t.value,
                                                translatableContentDigest |-> d]

\* a run is Done after writing a translation whose value is the empty string
\* and fetching one it had to skip
C2_Witness ==
    /\ pc = "done" /\ ~dry_run
    /\ \E w \in DOMAIN calls :
           /\ IsWrite(calls[w])
           /\ \E x \in DOMAIN calls[w].variables.trs :
                  calls[w].variables.trs[x].value = ""
    /\ \E i \in DOMAIN calls :
           /\ calls[i].op = "translatableResourcesByIds"
           /\ \E n \in DOMAIN calls[i].data :
                  \E j \in DOMAIN calls[i].data[n].translations :
                      calls[i].data[n].translations[j].value = NULL

\* the resource main() is processing, once it has built inputs for it
Processing == pc \in {"next_resource", "register_enter", "register"} /\ ri >= 1

\* C3: every TranslationInput built, and every one written, has a non-null
\* value and the non-null digest the DigestMap holds for its (source resource,
\* key), and comes from a fetched translation of that key and value; a key
\* without digest or with a null value is skipped, and skipping raises nothing
\* (the run fails only when a request does).
C3_InputOnlyWithDigestAndValue ==
    /\ Processing =>
           LET src_id == trans_by_res[ri].resourceId
               translations == trans_by_res[ri].translations
           IN  \A x \in DOMAIN inputs :
                   /\ inputs[x].value # NULL
                   /\ inputs[x].translatableContentDigest # NULL
                   /\ src_id \in DOMAIN digest_map
                   /\ inputs[x].key \in DOMAIN digest_map[src_id]
                   /\ digest_map[src_id][inputs[x].key] =
                          inputs[x].translatableContentDigest
                   /\ \E j \in DOMAIN translations :
                          /\ translations[j].key = inputs[x].key
                          /\ translations[j].value = inputs[x].value
    /\ \A w \in DOMAIN calls :
           IsWrite(calls[w]) =>
               \A x \in DOMAIN calls[w].variables.trs :
                   /\ calls[w].variables.trs[x].value # NULL
                   /\ calls[w].variables.trs[x].translatableContentDigest # NULL
    /\ pc = "failed" => calls # <<>> /\ Last(calls).outcome # "ok"

\* main() is about to register the inputs of a resource one of whose fetched
\* translations has a value but no digest, and was skipped
C3_Witness ==
    /\ pc = "register_enter" /\ ri >= 1 /\ inputs # <<>>
    /\ \E j \in DOMAIN trans_by_res[ri].translations :
           LET t == trans_by_res[ri].translations[j]
           IN  /\ t.value # NULL
               /\ Get(digest_map[trans_by_res[ri].resourceId], t.key) = NULL
               /\ \A x \in DOMAIN inputs : inputs[x].key # t.key

\* C4: a request that ends in a transport or an application-level error is the
\* last request of the run: none follows it (no retry, no rollback of the
\* writes made before it), the run stands failed and is not Done.
C4_FailureIsFatal ==
    /\ \A i \in DOMAIN calls : i < Len(calls) => calls[i].outcome = "ok"
    /\ (calls # <<>> /\ Last(calls).outcome # "ok") => pc = "failed"
    /\ pc = "done" => \A i \in DOMAIN calls : calls[i].outcome = "ok"

\* a request failed after a write had gone through
C4_Witness ==
    /\ pc = "failed"
    /\ Last(calls).outcome = "graphql_errors"
    /\ \E i \in DOMAIN calls : IsWrite(calls[i]) /\ calls[i].outcome = "ok"

----------------------------------------------------------------------------
(* What main() sends for one resource type and one locale *)

IsPrefix(a, b) == Len(a) <= Len(b) /\ a = SubSeq(b, 1, Len(a))

\* the variables of the requests of operation op sent while main() was on
\* resource type t and on the n-th locale, in the order sent
RECURSIVE SentFor(_, _, _, _)
SentFor(op, t, n, i) ==
    IF i > Len(calls) THEN <<>>
    ELSE (IF calls[i].op = op /\ calls[i].rt = t /\ calls[i].loc = n
          THEN <<calls[i].variables>> ELSE <<>>)
         \o SentFor(op, t, n, i + 1)

\* the nodes the bulk fetch of type t and of the n-th locale returned
RECURSIVE FetchedNodes(_, _, _)
FetchedNodes(t, n, i) ==
    IF i > Len(calls) THEN <<>>
    ELSE (IF /\ calls[i].op = "translatableResourcesByIds"
             /\ calls[i].rt = t /\ calls[i].loc = n
          THEN calls[i].data ELSE <<>>)
         \o FetchedNodes(t, n, i + 1)

\* the translations of resource r of type t to copy into locale l: those with
\* a recorded digest and a value
RECURSIVE Eligible(_, _, _, _)
Eligible(t, r, translations, l) ==
    IF translations = <<>> THEN <<>>
    ELSE LET x == Head(translations)
             d == RecordedDigest(t, r, x.key)
         IN  (IF d # NULL /\ d # "" /\ x.value # NULL
              THEN <<[key |-> x.key, locale |-> l, value |-> x.value,
                      translatableContentDigest |-> d]>>
              ELSE <<>>)
             \o Eligible(t, r, Tail(translations), l)

\* one mutation per hundred eligible translations of each fetched resource,
\* resource by resource, whatever the answers to the mutations are
RECURSIVE WritesDue(_, _, _)
WritesDue(t, entries, l) ==
    IF entries = <<>> THEN <<>>
    ELSE LET e == Head(entries)
             parts == chunked(Eligible(t, e.resourceId, e.translations, l),
                              MAX_TRANSLATIONS_PER_MUT)
             id == Remap(e.resourceId, source_theme_id, dest_theme_id)
         IN  [j \in DOMAIN parts |-> [id |-> id, trs |-> parts[j]]]
             \o WritesDue(t, Tail(entries), l)

\* the mutations of a whole run for type t and the n-th locale
ExpectedWrites(t, n) ==
    WritesDue(t, FetchMerge(<<>>, FetchedNodes(t, n, 1)), locales[n])

\* a mutation was answered with user errors
Rejected(c) == IsWrite(c) /\ c.outcome = "ok" /\ c.data # <<>>

\* C11: user errors are not fatal: the run stops as failed only on a request
\* that raised; the mutations sent for a type and a locale are always the
\* first ones of the list due whatever the answers are, so a rejected batch
\* is not sent again; and a run that is Done has sent that whole list.
C11_UserErrorsNotFatal ==
    /\ pc = "failed" => Last(calls).outcome # "ok"
    /\ ~dry_run =>
         \A t \in DOMAIN RESOURCE_TYPES : \A n \in DOMAIN locales :
             LET sent == SentFor("translationsRegister", t, n, 1)
                 due == ExpectedWrites(t, n)
             IN  /\ IsPrefix(sent, due)
                 /\ pc = "done" => sent = due

\* a Done run whose first mutation was rejected and was followed by others
C11_Witness ==
    /\ pc = "done"
    /\ \E i \in DOMAIN calls :
         /\ Rejected(calls[i])
         /\ \E j \in DOMAIN calls : j > i /\ IsWrite(calls[j])
         /\ \E j \in DOMAIN calls :
              j > i /\ calls[j].op = "translatableResources"

\* theme, section group, JSON template, settings-data sections, locale content
DeclaredOrder ==
    << "ONLINE_STORE_THEME",
       "ONLINE_STORE_THEME_SECTION_GROUP",
       "ONLINE_STORE_THEME_JSON_TEMPLATE",
       "ONLINE_STORE_THEME_SETTINGS_DATA_SECTIONS",
       "ONLINE_STORE_THEME_LOCALE_CONTENT" >>

\* the locale list of the run: the one supplied, else the one discovered
LocaleList ==
    IF locales_arg # <<>> THEN ParseLocales(locales_arg)
    ELSE IF calls # <<>> /\ calls[1].op = "shopLocales"
                         /\ calls[1].outcome = "ok"
    THEN calls[1].data
    ELSE <<>>

\* the request is made for one locale
PerLocale(c) == c.op = "translatableResourcesByIds" \/ IsWrite(c)

\* C12: the requests made for a resource type carry the types in the declared
\* order and those made for a locale carry the locales in the order of the
\* locale list; every request for a type precedes every request for the next
\* type, and within a type every request for a locale precedes every request
\* for the next locale.
C12_FixedOrder ==
    \A i \in DOMAIN calls :
        calls[i].op # "shopLocales" =>
            /\ calls[i].rt \in DOMAIN DeclaredOrder
            /\ calls[i].op = "translatableResources" =>
                   calls[i].variables.t = DeclaredOrder[calls[i].rt]
            /\ PerLocale(calls[i]) => calls[i].loc \in DOMAIN LocaleList
            /\ calls[i].op = "translatableResourcesByIds" =>
                   calls[i].variables.loc = LocaleList[calls[i].loc]
            /\ IsWrite(calls[i]) =>
                   \A x \in DOMAIN calls[i].variables.trs :
                       calls[i].variables.trs[x].locale
                           = LocaleList[calls[i].loc]
            /\ \A j \in DOMAIN calls :
                   j > i =>
                       /\ calls[i].rt <= calls[j].rt
                       /\ ( /\ calls[i].rt = calls[j].rt
                            /\ PerLocale(calls[i]) /\ PerLocale(calls[j]) )
                          => calls[i].loc <= calls[j].loc

\* a Done run that wrote for two locales of one type and then for a later
\* type
C12_Witness ==
    /\ pc = "done"
    /\ \E i, j, k \in DOMAIN calls :
         /\ i < j /\ j < k
         /\ IsWrite(calls[i]) /\ IsWrite(calls[j]) /\ IsWrite(calls[k])
         /\ calls[i].rt = calls[j].rt /\ calls[i].loc < calls[j].loc
         /\ calls[j].rt < calls[k].rt

\* a token is given by the flag or by the environment
HasToken == arg_token # "" \/ env_token # ""

NoCallFailed == \A i \in DOMAIN calls : calls[i].outcome = "ok"

\* the number of discovery requests sent for type t
ListCount(t) ==
    Cardinality({i \in DOMAIN calls :
                    calls[i].op = "translatableResources" /\ calls[i].rt = t})

\* discovery of type t listed a resource of the source theme
HasSourceResource(t) ==
    \E i \in DOMAIN ListedNodes(t, 1) :
        Contains(ListedNodes(t, 1)[i].resourceId, Snippet(source_theme_id))

\* every type was discovered up to the page without a next one and no
\* further, and every type with source resources was fetched in every locale
AllProcessed ==
    \A t \in DOMAIN DeclaredOrder :
        /\ ListCount(t) = IF shop.pages[t] = <<>> THEN 1
                          ELSE Len(shop.pages[t])
        /\ HasSourceResource(t) =>
               \A n \in DOMAIN locales :
                   \E i \in DOMAIN calls :
                       /\ calls[i].op = "translatableResourcesByIds"
                       /\ calls[i].rt = t /\ calls[i].loc = n

\* C13: a run with a token in which no request ever fails eventually is Done,
\* having discovered every type up to its last page and fetched every type
\* with source resources in every locale.
C13_Terminates ==
    (HasToken /\ []NoCallFailed) => <>(pc = "done" /\ AllProcessed)

\* a Done run without a failed request that read three pages of one type and
\* fetched in two locales
C13_Witness ==
    /\ pc = "done" /\ NoCallFailed /\ AllProcessed
    /\ \E t \in DOMAIN DeclaredOrder : ListCount(t) = 3
    /\ \E i \in DOMAIN calls :
         calls[i].op = "translatableResourcesByIds" /\ calls[i].loc = 2

\* the <<destination identifier, key, locale>> of every TranslationInput
\* written by request i
WrittenBy(i) ==
    IF IsWrite(calls[i])
    THEN {<<calls[i].variables.id, calls[i].variables.trs[x].key,
            calls[i].variables.trs[x].locale>> :
              x \in DOMAIN calls[i].variables.trs}
    ELSE {}

\* C14: at-most-once write: within one run no two TranslationInputs, of one
\* mutation or of two, are written to the same destination identifier with
\* the same key and the same locale.  Violated: --locales "fr,fr" makes main
\* run the locale loop twice for fr and send every mutation twice.
C14_AtMostOnceWrite ==
    \A i, j \in DOMAIN calls :
        /\ i < j => WrittenBy(i) \cap WrittenBy(j) = {}
        /\ IsWrite(calls[i]) =>
               \A x, y \in DOMAIN calls[i].variables.trs :
                   ( /\ calls[i].variables.trs[x].key
                          = calls[i].variables.trs[y].key
                     /\ calls[i].variables.trs[x].locale
                          = calls[i].variables.trs[y].locale )
                   => x = y

\* within one resource type the same input is written at the first and at
\* the second position of the locale list, and both mutations are accepted
C14_Witness ==
    /\ locales_arg = fr \o <<",">> \o fr
    /\ \E i, j \in DOMAIN calls :
         /\ i < j
         /\ IsWrite(calls[i]) /\ IsWrite(calls[j])
         /\ calls[i].outcome = "ok" /\ calls[j].outcome = "ok"
         /\ calls[i].rt = calls[j].rt
         /\ calls[i].loc = 1 /\ calls[j].loc = 2
         /\ calls[i].variables = calls[j].variables

\* seg occurs in s
HasSegment(s, seg) ==
    \E k \in 1..(Len(s) - Len(seg) + 1) : SubSeq(s, k, k + Len(seg) - 1) = seg

\* "/" + sourceThemeId
SourceSegment == <<"/">> \o Str(source_theme_id)

\* C15: every source identifier for which main() builds inputs or issues a
\* write, and every identifier it fetches, contains "/" + sourceThemeId.
C15_OnlySourceThemeProcessed ==
    /\ Processing =>
           HasSegment(trans_by_res[ri].resourceId, SourceSegment)
    /\ \A i \in DOMAIN calls :
           calls[i].op = "translatableResourcesByIds" =>
               /\ \A x \in DOMAIN calls[i].variables.ids :
                      HasSegment(calls[i].variables.ids[x], SourceSegment)
               /\ \A n \in DOMAIN calls[i].data :
                      HasSegment(calls[i].data[n].resourceId, SourceSegment)

\* a write is being sent for a resource of a type whose discovery also
\* listed a resource of another theme
C15_Witness ==
    /\ pc = "register" /\ ri >= 1 /\ inputs # <<>>
    /\ \E i \in DOMAIN ListedNodes(rt, 1) :
         ~HasSegment(ListedNodes(rt, 1)[i].resourceId, SourceSegment)
    /\ \E i \in DOMAIN calls : IsWrite(calls[i])

\* C16: no fetch and no write is ever sent for a resource type whose discovery
\* listed no resource of the source theme; the run fails only on a request
\* that raised; and a Done run has discovered every type, those after an
\* empty one too, and fetched each type that has source resources in every
\* locale.
C16_EmptyTypeSkipped ==
    /\ \A i \in DOMAIN calls :
           PerLocale(calls[i]) => HasSourceResource(calls[i].rt)
    /\ pc = "failed" => Last(calls).outcome # "ok"
    /\ pc = "done" => AllProcessed

\* a Done run in which a type without source resources was followed by a
\* type that was fetched and written
C16_Witness ==
    /\ pc = "done"
    /\ \E t \in DOMAIN DeclaredOrder :
         /\ ~HasSourceResource(t)
         /\ \E i \in DOMAIN calls : IsWrite(calls[i]) /\ calls[i].rt = t + 1

\* C17: when neither the flag nor the environment gives a token, the run
\* ends at startup and no request of any kind is ever sent.
C17_NoTokenNoCall ==
    ~HasToken => calls = <<>> /\ pc \in {"start", "exit"}

\* the run has ended at startup for want of a token
C17_Witness == ~HasToken /\ pc = "exit"

\* the identifiers of the source theme the discovery of type t listed, each
\* once, in the order first listed
DiscoveredIds(t) ==
    LET nodes == ListedNodes(t, 1)
        first[i \in 0..Len(nodes)] ==
            IF i = 0 THEN <<>>
            ELSE IF \/ ~HasSegment(nodes[i].resourceId, SourceSegment)
                    \/ \E j \in 1..(i - 1) :
                           nodes[j].resourceId = nodes[i].resourceId
            THEN first[i - 1]
            ELSE Append(first[i - 1], nodes[i].resourceId)
    IN  first[Len(nodes)]

\* the identifiers asked for by the fetch requests of type t and of the n-th
\* locale, in the order asked
AskedIds(t, n) ==
    LET reads == SentFor("translatableResourcesByIds", t, n, 1)
    IN  Flatten([k \in DOMAIN reads |-> reads[k].ids])

HoldsFetchResult ==
    pc \in {"next_resource", "register_enter", "register", "key_error"}

\* C19: the DigestMap lookup never fails: the run never ends on a missing
\* key, every key of the fetch result main() iterates has an entry in
\* digest_map, and every node a fetch returned, the remote API answering
\* with nodes of the identifiers asked for, is a discovered resource of the
\* type being processed.
C19_DigestLookupNeverFails ==
    /\ pc # "key_error"
    /\ HoldsFetchResult =>
           \A i \in DOMAIN trans_by_res :
               trans_by_res[i].resourceId \in DOMAIN digest_map
    /\ \A i \in DOMAIN calls :
           calls[i].op = "translatableResourcesByIds" =>
               \A n \in DOMAIN calls[i].data :
                   \E k \in DOMAIN DiscoveredIds(calls[i].rt) :
                       DiscoveredIds(calls[i].rt)[k]
                           = calls[i].data[n].resourceId

\* inputs were built from the digests of the second of two fetched
\* resources, of a type whose discovery listed more nodes than it kept
C19_Witness ==
    /\ pc = "next_resource" /\ ri = 2 /\ inputs # <<>>
    /\ Len(ListedNodes(rt, 1)) > Len(DiscoveredIds(rt))
    /\ Len(DiscoveredIds(rt)) >= 2

\* C20: when the source and the destination theme ids differ, the
\* destination identifier main() computes differs from the source
\* identifier it is computed from, and every write is sent to an identifier
\* that differs from the fetched identifier it is remapped from.
C20_NeverWritesToSource ==
    source_theme_id # dest_theme_id =>
        /\ Processing => dest_id # trans_by_res[ri].resourceId
        /\ \A i \in DOMAIN calls :
               IsWrite(calls[i]) =>
                   LET nodes == FetchedNodes(calls[i].rt, calls[i].loc, 1)
                   IN  \E n \in DOMAIN nodes :
                           /\ nodes[n].resourceId # calls[i].variables.id
                           /\ Remap(nodes[n].resourceId, source_theme_id,
                                    dest_theme_id) = calls[i].variables.id

\* a write was accepted for a destination that still contains the segment
\* of the source theme: only the first of two occurrences is replaced
C20_Witness ==
    /\ source_theme_id # dest_theme_id
    /\ Processing
    /\ HasSegment(dest_id, SourceSegment)
    /\ Last(calls).outcome = "ok" /\ IsWrite(Last(calls))
    /\ Last(calls).variables.id = dest_id

----------------------------------------------------------------------------
(* The helpers applied on their own, to arguments main() does not reach    *)

MaxIdLen == 4
MaxLen == 5
MaxSize == 3
MaxPages == 3
MaxInputs == 201
MaxIds == 501

IdChars == {"g", "/", "1", "2"}
HelperThemes == {1, 2, 12}

\* every string of at most n characters of IdChars
Strings(n) == UNION {[1..k -> IdChars] : k \in 0..n}

\* "gid://shop/OnlineStoreThemeSectionGroup/"
ExamplePrefix ==
    << "g", "i", "d", ":", "/", "/", "s", "h", "o", "p", "/", "O", "n",
       "l", "i", "n", "e", "S", "t", "o", "r", "e", "T", "h", "e", "m",
       "e", "S", "e", "c", "t", "i", "o", "n", "G", "r", "o", "u", "p",
       "/" >>

NoShop == [pages |-> <<NoPage, NoPage, NoPage, NoPage, NoPage>>,
           locales |-> <<>>, stale |-> {}, missing |-> {}, profile |-> 1]

\* a command line for a helper that reads none of it
NoArgs ==
    /\ dry_run = FALSE /\ arg_token = "" /\ env_token = ""
    /\ locales_arg = <<>>

\* dest_id (line 166) of an identifier hin
InitRemap ==
    /\ \/ /\ hin \in Strings(MaxIdLen)
          /\ source_theme_id \in HelperThemes
          /\ dest_theme_id \in HelperThemes
       \/ /\ hin = ExamplePrefix \o <<"1", "0", "0">>
          /\ source_theme_id = 100
          /\ dest_theme_id = 200
    /\ NoArgs /\ shop = NoShop /\ Unset
    /\ pc = "remap" /\ caller = "helper"

ApplyRemap ==
    /\ pc = "remap"
    /\ hout' = Remap(hin, source_theme_id, dest_theme_id)
    /\ pc' = "returned"
    /\ UNCHANGED <<static, locales, rt, resources, digest_map, ids, loc,
                   trans_by_res, ri, dest_id, inputs, out, cursor, batches,
                   fout, errs, retval, locale, dry, calls>>

SpecRemap == InitRemap /\ [][ApplyRemap]_vars

\* list(chunked(it, size)) of hin = [it, size]
InitChunked ==
    /\ \E k \in 0..MaxLen, size \in 1..MaxSize :
           \E it \in [1..k -> {"a", "b"}] : hin = [it |-> it, size |-> size]
    /\ NoArgs /\ shop = NoShop /\ Unset
    /\ source_theme_id = 1 /\ dest_theme_id = 2
    /\ pc = "chunked" /\ caller = "helper"

ApplyChunked ==
    /\ pc = "chunked"
    /\ hout' = chunked(hin.it, hin.size)
    /\ pc' = "returned"
    /\ UNCHANGED <<static, locales, rt, resources, digest_map, ids, loc,
                   trans_by_res, ri, dest_id, inputs, out, cursor, batches,
                   fout, errs, retval, locale, dry, calls>>

SpecChunked == InitChunked /\ [][ApplyChunked]_vars

\* the pages a shop may serve for one resource type
Pages == { <<>>, <<nodeA>>, <<nodeB>>, <<nodeA, nodeB>>, <<nodeB, nodeA>>,
           <<nodeC, nodeD>> }

\* list_resources(shop, token, RESOURCE_TYPES[rt], source_theme_id)
InitList ==
    /\ rt \in {1, Len(RESOURCE_TYPES)}
    /\ source_theme_id \in HelperThemes
    /\ dest_theme_id = 2
    /\ \E k \in 0..MaxPages :
           \E served \in [1..k -> Pages] :
               shop = [NoShop EXCEPT
                          !.pages = [t \in 1..Len(RESOURCE_TYPES) |->
                                        IF t = rt THEN served ELSE NoPage]]
    /\ NoArgs /\ hin = <<>>
    /\ locales = <<>> /\ resources = <<>> /\ digest_map = <<>>
    /\ ids = <<>> /\ loc = 0 /\ trans_by_res = <<>> /\ ri = 0
    /\ dest_id = <<>> /\ inputs = <<>> /\ out = <<>> /\ cursor = 0
    /\ batches = <<>> /\ fout = <<>> /\ errs = <<>> /\ retval = <<>>
    /\ locale = <<>> /\ dry = FALSE /\ calls = <<>> /\ hout = <<>>
    /\ pc = "list_enter" /\ caller = "helper"

SpecList == InitList /\ [][ListEnter \/ ListPage]_vars

\* the identifier of the i-th resource of theme 1
HelperId(i) == <<"g", "/", "1", "/">> \o Str(i)

FetchSizes ==
    {n \in 0..MaxIds : n <= 2 \/ n % MAX_IDS_PER_QUERY \in
                                   {0, 1, MAX_IDS_PER_QUERY - 1}} \cup {530}

\* fetch_locale_bulk(shop, token, ids, locale)
InitFetch ==
    /\ \E n \in FetchSizes : ids = [i \in 1..n |-> HelperId(i)]
    /\ locale \in {fr, de}
    /\ \E gone \in {{}, {HelperId(1)}}, p \in {1, 2} :
           shop = [NoShop EXCEPT !.missing = gone, !.profile = p]
    /\ NoArgs /\ hin = <<>>
    /\ source_theme_id = 1 /\ dest_theme_id = 2
    /\ locales = <<>> /\ rt = 0 /\ resources = <<>> /\ digest_map = <<>>
    /\ loc = 0 /\ trans_by_res = <<>> /\ ri = 0
    /\ dest_id = <<>> /\ inputs = <<>> /\ out = <<>> /\ cursor = 0
    /\ batches = <<>> /\ fout = <<>> /\ errs = <<>> /\ retval = <<>>
    /\ dry = FALSE /\ calls = <<>> /\ hout = <<>>
    /\ pc = "fetch_enter" /\ caller = "helper"

SpecFetch == InitFetch /\ [][FetchEnter \/ FetchBatch \/ FetchReturn]_vars

\* the i-th input of a list: the digests alternate
HelperInput(i) ==
    [key |-> ToString(i), locale |-> fr, value |-> "v",
     translatableContentDigest |-> IF i % 2 = 0 THEN "d2" ELSE "d1"]

RegisterSizes ==
    {n \in 0..MaxInputs : n <= 2 \/ n % MAX_TRANSLATIONS_PER_MUT \in
                                      {0, 1, MAX_TRANSLATIONS_PER_MUT - 1}}

\* register_bulk(shop, token, dest_id, inputs, dry)
InitRegister ==
    /\ \E n \in RegisterSizes : inputs = [i \in 1..n |-> HelperInput(i)]
    /\ dry \in BOOLEAN
    /\ dest_id \in {idA, idB}
    /\ \E st \in {{}, {"d2"}, {"d1", "d2"}} : shop = [NoShop EXCEPT !.stale = st]
    /\ NoArgs /\ hin = <<>>
    /\ source_theme_id = 1 /\ dest_theme_id = 2
    /\ locales = <<>> /\ rt = 0 /\ resources = <<>> /\ digest_map = <<>>
    /\ ids = <<>> /\ loc = 0 /\ trans_by_res = <<>> /\ ri = 0
    /\ out = <<>> /\ cursor = 0
    /\ batches = <<>> /\ fout = <<>> /\ errs = <<>> /\ retval = <<>>
    /\ locale = <<>> /\ calls = <<>> /\ hout = <<>>
    /\ pc = "register_enter" /\ caller = "helper"

SpecRegister ==
    InitRegister /\ [][RegisterEnter \/ RegisterBatch \/ RegisterReturn]_vars

----------------------------------------------------------------------------
(* Properties of the helpers *)

\* the positions at which sub occurs in s
Occurrences(s, sub) ==
    {i \in 1..(Len(s) - Len(sub) + 1) :
        \A j \in 1..Len(sub) : s[i + j - 1] = sub[j]}

Ceil(n, d) == (n + d - 1) \div d

Max(a, b) == IF a > b THEN a ELSE b

\* the lists of inputs, or of identifiers, the requests carried, in order
SentInputs == [i \in DOMAIN calls |-> calls[i].variables.trs]
SentIds == [i \in DOMAIN calls |-> calls[i].variables.ids]
Returned == [i \in DOMAIN calls |-> calls[i].data]

\* C5: the destination identifier is the source identifier with the first
\* occurrence of "/"+source theme id replaced by "/"+destination theme id, the
\* characters before and after it kept (later occurrences too); without an
\* occurrence it is the source identifier; theme 100 to 200 turns
\* gid://shop/OnlineStoreThemeSectionGroup/100 into .../200.
C5_FirstOccurrenceRemapped ==
    pc = "returned" =>
        LET old == Snippet(source_theme_id)
            new == Snippet(dest_theme_id)
            occ == Occurrences(hin, old)
        IN  /\ occ = {} => hout = hin
            /\ occ # {} =>
                   LET i == CHOOSE m \in occ : \A n \in occ : m <= n
                   IN  /\ Len(hout) = Len(hin) - Len(old) + Len(new)
                       /\ \A j \in 1..(i - 1) : hout[j] = hin[j]
                       /\ \A j \in 1..Len(new) : hout[i + j - 1] = new[j]
                       /\ \A j \in (i + Len(old))..Len(hin) :
                              hout[j - Len(old) + Len(new)] = hin[j]
            /\ (hin = ExamplePrefix \o <<"1", "0", "0">>
                    /\ source_theme_id = 100 /\ dest_theme_id = 200) =>
                   hout = ExamplePrefix \o <<"2", "0", "0">>

\* an identifier holding the segment twice was remapped to another theme
C5_Witness ==
    /\ pc = "returned"
    /\ source_theme_id # dest_theme_id
    /\ Cardinality(Occurrences(hin, Snippet(source_theme_id))) >= 2
    /\ hout # hin

\* the nodes of a list whose identifier holds "/"+source theme id
RECURSIVE SourceNodes(_)
SourceNodes(nodes) ==
    IF nodes = <<>> THEN <<>>
    ELSE (IF Occurrences(Head(nodes).resourceId,
                         <<"/">> \o Str(source_theme_id)) # {}
          THEN <<Head(nodes)>> ELSE <<>>)
         \o SourceNodes(Tail(nodes))

\* the pages the shop serves for the type being listed
Served == shop.pages[rt]

\* C6: list_resources asks for the pages one by one, the first with the null
\* cursor and each next one with the cursor of the page before, no page twice
\* and none skipped; after each page it holds every node of the pages read so
\* far whose identifier contains "/"+source theme id, and no other, in page
\* order; it returns that list for all the pages served.
C6_ListReturnsSourceResources ==
    /\ \A i \in DOMAIN calls :
           /\ calls[i].op = "translatableResources"
           /\ calls[i].variables.a = i - 1
           /\ calls[i].variables.t = RESOURCE_TYPES[rt]
           /\ i <= Max(1, Len(Served))
    /\ (pc = "list" /\ calls # <<>>) =>
           /\ cursor = Len(calls)
           /\ out = SourceNodes(Flatten(SubSeq(Served, 1, Len(calls))))
    /\ pc = "returned" =>
           /\ Len(calls) = Max(1, Len(Served))
           /\ retval = SourceNodes(Flatten(Served))

\* three pages were listed, some of their nodes kept and some left out
C6_Witness ==
    /\ pc = "returned"
    /\ Len(Served) = 3
    /\ Len(retval) >= 2
    /\ Len(retval) < Len(Flatten(Served))
    /\ Last(Served) # <<>>

\* C7: the batches chunked yields, concatenated in order, are the input; none
\* is empty, none is longer than the size, all but the last have exactly the
\* size; an empty input yields no batch.
C7_ChunkedLossless ==
    pc = "returned" =>
        /\ Flatten(hout) = hin.it
        /\ \A b \in DOMAIN hout :
               /\ Len(hout[b]) >= 1
               /\ Len(hout[b]) <= hin.size
               /\ b < Len(hout) => Len(hout[b]) = hin.size
        /\ hin.it = <<>> => hout = <<>>

\* several batches were yielded, the last shorter than the size
C7_Witness ==
    /\ pc = "returned"
    /\ Len(hout) >= 2
    /\ Len(Last(hout)) < hin.size

\* C8: with dry off and n > 0 inputs, register_bulk sends the inputs in order
\* in mutations of at most 100 inputs each, all to the given identifier,
\* ceil(n/100) of them when it returns; it returns the user errors of all the
\* batches in batch order; user errors never make it fail (it fails only when
\* a request raises) nor stop the batches that follow.
C8_RegisterBatchesAndCollects ==
    (~dry /\ inputs # <<>>) =>
        /\ \A i \in DOMAIN calls :
               /\ IsWrite(calls[i])
               /\ calls[i].variables.id = dest_id
               /\ calls[i].variables.trs =
                      SubSeq(inputs, 100 * (i - 1) + 1,
                             IF 100 * i < Len(inputs) THEN 100 * i
                             ELSE Len(inputs))
               /\ Len(calls[i].variables.trs) \in 1..100
        /\ pc = "failed" => Last(calls).outcome # "ok"
        /\ pc = "returned" =>
               /\ Len(calls) = Ceil(Len(inputs), 100)
               /\ Flatten(SentInputs) = inputs
               /\ retval = Flatten(Returned)

\* 201 inputs went out in three mutations, the first of which reported user
\* errors, and errors were returned
C8_Witness ==
    /\ pc = "returned" /\ ~dry
    /\ Len(inputs) = 201
    /\ Len(calls) = 3
    /\ calls[1].data # <<>>
    /\ calls[2].data # <<>>
    /\ retval # <<>>

\* C9: with dry set, or with no input, register_bulk sends no request and
\* returns the empty list.
C9_RegisterNoop ==
    (dry \/ inputs = <<>>) =>
        /\ calls = <<>>
        /\ pc \in {"register_enter", "returned"}
        /\ pc = "returned" => retval = <<>>

\* a dry call with 201 inputs has returned
C9_Witness ==
    pc = "returned" /\ dry /\ Len(inputs) = 201 /\ dest_id = idB

\* C10: fetch_locale_bulk sends the identifiers in order in queries of at most
\* 250 identifiers each, all for the given locale, ceil(n/250) of them when it
\* returns: three of 250, 250 and 30 for 530 identifiers, none for none.
C10_FetchBatches ==
    /\ \A i \in DOMAIN calls :
           /\ calls[i].op = "translatableResourcesByIds"
           /\ calls[i].variables.loc = locale
           /\ calls[i].variables.ids =
                  SubSeq(ids, 250 * (i - 1) + 1,
                         IF 250 * i < Len(ids) THEN 250 * i ELSE Len(ids))
           /\ Len(calls[i].variables.ids) \in 1..250
           /\ calls[i].variables.first = Len(calls[i].variables.ids)
    /\ pc = "returned" =>
           /\ Len(calls) = Ceil(Len(ids), 250)
           /\ Flatten(SentIds) = ids
           /\ Len(ids) = 530 =>
                  [i \in DOMAIN calls |-> Len(calls[i].variables.ids)]
                      = <<250, 250, 30>>
           /\ ids = <<>> => calls = <<>>

\* 530 identifiers were fetched in three queries
C10_Witness ==
    pc = "returned" /\ Len(ids) = 530 /\ Len(calls) = 3

====
